---- MODULE Spec2Model ----
(***************************************************************************)
(* Model of mindauto/data/transforms/utils.py:                             *)
(*   extract_result_dict, is_loading_function, get_loading_pipeline.       *)
(*                                                                         *)
(* get_loading_pipeline is modelled as the interpreter runs it: a heap of  *)
(* Python lists (identity = index in `lists`), a call stack of frames      *)
(* (pipeline, loading_pipeline, loop position), and one action per branch  *)
(* of the loop body and per way of leaving the function.                   *)
(***************************************************************************)
EXTENDS Integers, Sequences, FiniteSets, TLC

VARIABLES
    lists,      \* heap of list objects: lists[id] is the content of list id
    stack,      \* call stack of get_loading_pipeline frames, top is last
    status,     \* "idle" | "running" | "returned" | "raised"
    result,     \* id of the list returned by the outermost call, 0 if none
    round,      \* number of outermost calls made so far
    transform,  \* local `transform` of the last loop iteration
    is_loading, \* local `is_loading` of the last loop iteration
    heap0,      \* history: the heap when the outermost call was made
    arg,        \* history: the argument of the outermost call
    res0,       \* history: content of the list returned by the first call
    results,    \* extract_result_dict: argument `results`
    key,        \* extract_result_dict: argument `key`
    out         \* extract_result_dict: outcome

vars == <<lists, stack, status, result, round, transform, is_loading,
          heap0, arg, res0, results, key, out>>

pvars == <<lists, stack, status, result, round, transform, is_loading,
           heap0, arg, res0>>

xvars == <<results, key, out>>

----------------------------------------------------------------------------
(* Bounds *)

MaxSteps == 3     \* total number of steps in an enumerated pipeline tree
MaxRounds == 2    \* outermost calls in a run: reduce(P), then reduce(reduce(P))
MaxItems == 2     \* length of a list/tuple value in a result dict

----------------------------------------------------------------------------
(* Steps and their classification *)

\* a step is a config dict or an instantiated (callable) transform
Forms == {"dict", "obj"}

WrapperKind == "MultiScaleFlipAug3D"

\* utils.py:45-46
loading_functions ==
    {"LoadAnnotations3D", "LoadMultiViewImageFromFiles", "DefaultFormatBundle3D"}

\* kinds drawn when pipelines are enumerated
EnumKinds ==
    {"LoadAnnotations3D", "DefaultFormatBundle3D", "Resize", WrapperKind}

\* a step that carries no 'transforms'
NoTransforms == 0

NoStep == [form |-> "none", kind |-> "none", transforms |-> NoTransforms]

\* utils.py:47  callable(transform): a dict is not callable, a transform
\* instance is
callable(t) == t.form = "obj"

\* utils.py:47-52
is_loading_function(t) ==
    IF callable(t)
    THEN IF t.kind \in loading_functions THEN "True"
         ELSE IF t.kind = WrapperKind THEN "None"
         ELSE "False"
    ELSE "False"

----------------------------------------------------------------------------
(* Heap helpers *)

\* content of list id; id 0 is the literal [] default of dict.get
ListAt(h, id) == IF id = 0 THEN <<>> ELSE h[id]

\* utils.py:100  loading_pipeline = []
loading_pipeline_alias(h, p) == [heap |-> h, id |-> p]

loading_pipeline_init(h, p) ==
    [heap |-> Append(h, <<>>), id |-> Len(h) + 1]

\* utils.py:105-108: the id of the list under the dict's 'transforms' key
\* (NoTransforms, the literal [] default, when the key is missing), or of the
\* list transform.transforms.transforms of an instance
inner_pipeline_of(t) ==
    IF t.form = "dict"
    THEN IF t.transforms # NoTransforms THEN t.transforms ELSE NoTransforms
    ELSE t.transforms

\* utils.py:111  loading_pipeline.append(transform)
append_front(lp, t) == <<t>> \o lp

append(lp, t) == Append(lp, t)

\* utils.py:109  loading_pipeline.extend(...)
extend_replace(lp, r) == r

extend(lp, r) == lp \o r

\* utils.py:112  the asserted condition
assert_nonempty_off(lp) == TRUE

assert_nonempty(lp) == Len(lp) > 0

Top == stack[Len(stack)]

Pop == SubSeq(stack, 1, Len(stack) - 1)

Frame(p, lp) == [pipeline |-> p, loading_pipeline |-> lp, i |-> 0]

----------------------------------------------------------------------------
(* Input pipelines *)

Step(f, k, t) == [form |-> f, kind |-> k, transforms |-> t]

RECURSIVE PipesOfSize(_), StepsOfSize(_)

\* nested steps with exactly n steps in their tree
StepsOfSize(n) ==
    IF n = 1
    THEN {Step(f, k, <<>>) : f \in Forms, k \in EnumKinds}
    ELSE {Step(f, WrapperKind, p) : f \in Forms, p \in PipesOfSize(n - 1)}

\* nested pipelines with exactly n steps in their tree
PipesOfSize(n) ==
    IF n = 0
    THEN {<<>>}
    ELSE UNION {{<<s>> \o r : s \in StepsOfSize(k), r \in PipesOfSize(n - k)} :
                k \in 1..n}

D(k) == Step("dict", k, <<>>)

\* utils.py:67-86, the docstring example
DocPipeline ==
    <<D("LoadPointsFromFile"), D("LoadImageFromFile"), D("LoadAnnotations3D"),
      D("Resize"), D("RandomFlip3D"), D("PointsRangeFilter"),
      D("ObjectRangeFilter"), D("PointShuffle"), D("Normalize"), D("Pad"),
      D("DefaultFormatBundle3D"), D("Collect3D")>>

\* utils.py:87-96
DocExpected ==
    <<D("LoadPointsFromFile"), D("LoadImageFromFile"), D("LoadAnnotations3D"),
      D("DefaultFormatBundle3D"), D("Collect3D")>>

\* [A, W(B, C), D] with A, C, D loading and B not, in either form
FlattenExample(f) ==
    <<Step(f, "LoadAnnotations3D", <<>>),
      Step(f, WrapperKind,
           <<Step(f, "Resize", <<>>),
             Step(f, "LoadMultiViewImageFromFiles", <<>>)>>),
      Step(f, "DefaultFormatBundle3D", <<>>)>>

ExamplePipelines == {DocPipeline} \cup {FlattenExample(f) : f \in Forms}

InputPipelines ==
    UNION {PipesOfSize(n) : n \in 0..MaxSteps} \cup ExamplePipelines

RECURSIVE Store(_, _), StoreSteps(_, _, _, _)

\* lay a nested pipeline out on the heap; every embedded sub-pipeline becomes
\* a list object of its own
Store(h, p) ==
    LET id == Len(h) + 1
        r == StoreSteps(Append(h, <<>>), p, 1, <<>>)
    IN [heap |-> [r.heap EXCEPT ![id] = r.refs], id |-> id]

StoreSteps(h, p, i, refs) ==
    IF i > Len(p)
    THEN [heap |-> h, refs |-> refs]
    ELSE LET s == p[i]
         IN IF s.kind = WrapperKind
            THEN LET r == Store(h, s.transforms)
                 IN StoreSteps(r.heap, p, i + 1,
                               Append(refs, Step(s.form, s.kind, r.id)))
            ELSE StoreSteps(h, p, i + 1,
                            Append(refs, Step(s.form, s.kind, NoTransforms)))

----------------------------------------------------------------------------
(* extract_result_dict values *)

Keys == {"x", "y"}

QueryKeys == {"x", "y", "z"}

DataIds == {5, 6}

Value(ty, d, s) == [type |-> ty, id |-> d, items |-> s]

NoneValue == Value("None", 0, <<>>)

Datum(d) == Value("data", d, <<>>)

RECURSIVE SeqsUpTo(_, _)

SeqsUpTo(S, n) ==
    IF n = 0 THEN {<<>>}
    ELSE SeqsUpTo(S, n - 1) \cup
         {Append(s, e) : s \in {q \in SeqsUpTo(S, n - 1) : Len(q) = n - 1},
                         e \in S}

Values ==
    {Datum(d) : d \in DataIds} \cup
    {Value(ty, 0, s) : ty \in {"list", "tuple"}, s \in SeqsUpTo(DataIds, MaxItems)}

ResultDicts == UNION {[S -> Values] : S \in SUBSET Keys}

NoOutcome == [kind |-> "none", value |-> NoneValue]

\* utils.py:26  isinstance(data, (list, tuple))
is_list_or_tuple(v) == v.type \in {"list", "tuple"}

\* utils.py:21-28
extract_result_dict(r, k) ==
    IF k \notin DOMAIN r
    THEN [kind |-> "return", value |-> NoneValue]
    ELSE LET data == r[k]
         IN IF is_list_or_tuple(data)
            THEN IF Len(data.items) = 0
                 THEN [kind |-> "raise", value |-> NoneValue]   \* IndexError
                 ELSE [kind |-> "return", value |-> Datum(data.items[1])]
            ELSE [kind |-> "return", value |-> data]

----------------------------------------------------------------------------
(* Initial states *)

IdleExtract == results = <<>> /\ key = "x" /\ out = NoOutcome

Init ==
    /\ \E p \in InputPipelines : lists = Store(<<>>, p).heap
    /\ stack = <<>>
    /\ status = "idle"
    /\ result = 0
    /\ round = 0
    /\ transform = NoStep
    /\ is_loading = "unset"
    /\ heap0 = <<>>
    /\ arg = 0
    /\ res0 = <<>>
    /\ IdleExtract

InitExtract ==
    /\ lists = <<>>
    /\ stack = <<>>
    /\ status = "idle"
    /\ result = 0
    /\ round = 0
    /\ transform = NoStep
    /\ is_loading = "unset"
    /\ heap0 = <<>>
    /\ arg = 0
    /\ res0 = <<>>
    /\ results \in ResultDicts
    /\ key \in QueryKeys
    /\ out = NoOutcome

----------------------------------------------------------------------------
(* Actions of get_loading_pipeline *)

\* the outermost call: get_loading_pipeline(P), and afterwards
\* get_loading_pipeline applied to the list the previous call returned
Call ==
    /\ round < MaxRounds
    /\ status \in {"idle", "returned"}
    /\ LET p == IF status = "idle" THEN 1 ELSE result
           a == loading_pipeline_init(lists, p)
       IN /\ lists' = a.heap
          /\ stack' = <<Frame(p, a.id)>>
          /\ heap0' = lists
          /\ arg' = p
    /\ status' = "running"
    /\ result' = 0
    /\ round' = round + 1
    /\ transform' = NoStep
    /\ is_loading' = "unset"
    /\ UNCHANGED <<res0, xvars>>

\* guard and locals of one loop iteration, utils.py:101-102
Iterating ==
    /\ status = "running"
    /\ Top.i < Len(ListAt(lists, Top.pipeline))

Current == ListAt(lists, Top.pipeline)[Top.i + 1]

\* utils.py:103-109: the step is the wrapper, call get_loading_pipeline on
\* its inner pipeline
RecurseIntoWrapper ==
    /\ Iterating
    /\ is_loading_function(Current) = "None"
    /\ LET a == loading_pipeline_init(lists, inner_pipeline_of(Current))
       IN /\ lists' = a.heap
          /\ stack' = Append(stack, Frame(inner_pipeline_of(Current), a.id))
    /\ transform' = Current
    /\ is_loading' = "None"
    /\ UNCHANGED <<status, result, round, heap0, arg, res0, xvars>>

\* utils.py:110-111
AppendLoading ==
    /\ Iterating
    /\ is_loading_function(Current) = "True"
    /\ lists' = [lists EXCEPT ![Top.loading_pipeline] = append(@, Current)]
    /\ stack' = [stack EXCEPT ![Len(stack)].i = @ + 1]
    /\ transform' = Current
    /\ is_loading' = "True"
    /\ UNCHANGED <<status, result, round, heap0, arg, res0, xvars>>

\* neither branch of utils.py:103-111 is taken
DropStep ==
    /\ Iterating
    /\ is_loading_function(Current) = "False"
    /\ stack' = [stack EXCEPT ![Len(stack)].i = @ + 1]
    /\ transform' = Current
    /\ is_loading' = "False"
    /\ UNCHANGED <<lists, status, result, round, heap0, arg, res0, xvars>>

LoopDone ==
    /\ status = "running"
    /\ Top.i >= Len(ListAt(lists, Top.pipeline))

\* utils.py:112-115 in a recursive call, then utils.py:109 in its caller
ReturnToCaller ==
    /\ LoopDone
    /\ Len(stack) > 1
    /\ assert_nonempty(lists[Top.loading_pipeline])
    /\ LET caller == stack[Len(stack) - 1]
       IN /\ lists' = [lists EXCEPT ![caller.loading_pipeline] =
                           extend(@, lists[Top.loading_pipeline])]
          /\ stack' = [Pop EXCEPT ![Len(stack) - 1].i = @ + 1]
    /\ UNCHANGED <<status, result, round, transform, is_loading,
                   heap0, arg, res0, xvars>>

\* utils.py:112-115 in the outermost call
ReturnToTop ==
    /\ LoopDone
    /\ Len(stack) = 1
    /\ assert_nonempty(lists[Top.loading_pipeline])
    /\ status' = "returned"
    /\ result' = Top.loading_pipeline
    /\ res0' = IF round = 1 THEN lists[Top.loading_pipeline] ELSE res0
    /\ stack' = <<>>
    /\ UNCHANGED <<lists, round, transform, is_loading, heap0, arg, xvars>>

\* utils.py:112-114: the assertion fails; nothing catches it, so every frame
\* is unwound
AssertionError ==
    /\ LoopDone
    /\ ~assert_nonempty(lists[Top.loading_pipeline])
    /\ status' = "raised"
    /\ result' = 0
    /\ stack' = <<>>
    /\ UNCHANGED <<lists, round, transform, is_loading, heap0, arg, res0,
                   xvars>>

Next ==
    \/ Call
    \/ RecurseIntoWrapper
    \/ AppendLoading
    \/ DropStep
    \/ ReturnToCaller
    \/ ReturnToTop
    \/ AssertionError

Spec == Init /\ [][Next]_vars

----------------------------------------------------------------------------
(* Action of extract_result_dict *)

ExtractResultDict ==
    /\ out.kind = "none"
    /\ out' = extract_result_dict(results, key)
    /\ UNCHANGED <<results, key, pvars>>

NextExtract == ExtractResultDict

SpecExtract == InitExtract /\ [][NextExtract]_vars

----------------------------------------------------------------------------
(* What the documentation says of a step: its kind alone decides *)

KindClass(t) ==
    IF t.kind = WrapperKind THEN "WRAPPER"
    ELSE IF t.kind \in loading_functions THEN "LOADING"
    ELSE "NOT_LOADING"

CodeClass(v) ==
    IF v = "None" THEN "WRAPPER" ELSE IF v = "True" THEN "LOADING"
    ELSE "NOT_LOADING"

Finished == status \in {"returned", "raised"}

\* the argument of the outermost call, as it was when the call was made
Input == ListAt(heap0, arg)

\* a wrapper-free nested pipeline as it lies on the heap
OnHeap(p) == Store(<<>>, p).heap[1]

NoWrapperIn(p) == \A i \in 1..Len(p) : KindClass(p[i]) # "WRAPPER"

IsLoadingKind(t) == KindClass(t) = "LOADING"

LoadingKindsOf(p) == SelectSeq(p, IsLoadingKind)

RECURSIVE FlatLoading(_, _), FlatFrom(_, _, _)

\* depth-first, in-order sequence of the loading-kind steps of list id and of
\* the sub-pipelines of its wrapper-kind steps
FlatLoading(h, id) == FlatFrom(h, ListAt(h, id), 1)

FlatFrom(h, p, i) ==
    IF i > Len(p) THEN <<>>
    ELSE (CASE KindClass(p[i]) = "WRAPPER" -> FlatLoading(h, p[i].transforms)
            [] KindClass(p[i]) = "LOADING" -> <<p[i]>>
            [] OTHER -> <<>>) \o FlatFrom(h, p, i + 1)

RECURSIVE EmptyWrapperIn(_, _)

\* some wrapper-kind step reachable from list id embeds a sub-pipeline that is
\* empty or holds no loading-kind step at any depth
EmptyWrapperIn(h, id) ==
    \E i \in 1..Len(ListAt(h, id)) :
        LET t == ListAt(h, id)[i]
        IN /\ KindClass(t) = "WRAPPER"
           /\ \/ FlatLoading(h, t.transforms) = <<>>
              \/ EmptyWrapperIn(h, t.transforms)

RECURSIVE Occurrences(_, _, _), OccFrom(_, _, _, _)

\* how often step e occurs in list id and in the inner pipelines of the steps
\* of it that is_loading_function answers None for
Occurrences(h, id, e) == OccFrom(h, ListAt(h, id), 1, e)

OccFrom(h, p, i, e) ==
    IF i > Len(p) THEN 0
    ELSE (IF p[i] = e THEN 1 ELSE 0)
         + (IF is_loading_function(p[i]) = "None"
            THEN Occurrences(h, inner_pipeline_of(p[i]), e) ELSE 0)
         + OccFrom(h, p, i + 1, e)

CountIn(p, e) == Cardinality({i \in 1..Len(p) : p[i] = e})

----------------------------------------------------------------------------
(* Claims *)

\* C1: a pipeline with no wrapper-kind step and at least one loading-kind step
\* reduces to exactly its loading-kind steps, in their original order.
C1_Claim ==
    (Finished /\ NoWrapperIn(Input) /\ LoadingKindsOf(Input) # <<>>)
        => (status = "returned" /\ lists[result] = LoadingKindsOf(Input))

\* C2: the docstring example pipeline reduces, without failing, to the five
\* steps the docstring expects.
C2_Claim ==
    (Finished /\ Input = OnHeap(DocPipeline))
        => (status = "returned" /\ lists[result] = OnHeap(DocExpected))

\* C3: is_loading_function answers by the kind of the step alone, the same for
\* a config dict and an instance: None for the wrapper kind, True for a kind of
\* loading_functions, False otherwise.
C3_Claim ==
    is_loading # "unset" => CodeClass(is_loading) = KindClass(transform)

\* C4: a successful reduction returns the depth-first, in-order sequence of all
\* loading-kind steps of the pipeline and of the sub-pipelines of its wrappers,
\* and [A, W(B, C), D] with A, C, D loading reduces to [A, C, D].
C4_Claim ==
    /\ status = "returned" => lists[result] = FlatLoading(heap0, arg)
    /\ \A f \in Forms :
          (Finished /\ round = 1 /\ heap0 = Store(<<>>, FlattenExample(f)).heap)
              => (status = "returned" /\ lists[result] = FlatLoading(heap0, arg))

\* C5: a pipeline with no wrapper-kind step and no loading-kind step (the empty
\* pipeline included) makes the call fail on the non-empty assertion.
C5_EmptyFails ==
    (Finished /\ NoWrapperIn(Input) /\ LoadingKindsOf(Input) = <<>>)
        => status = "raised"

C5_Witness ==
    /\ status = "raised"
    /\ NoWrapperIn(Input)
    /\ LoadingKindsOf(Input) = <<>>
    /\ \E i \in 1..Len(Input) : Input[i].form = "obj"

\* C6: when a wrapper-kind step reachable from the pipeline embeds a
\* sub-pipeline that is empty or reduces to nothing, the outermost call fails,
\* whatever loading steps the rest of the pipeline holds.
C6_Claim ==
    (Finished /\ EmptyWrapperIn(heap0, arg)) => status = "raised"

\* C7: extract_result_dict never fails: None for a missing key, the first
\* element of a list or tuple of length >= 1, the stored value otherwise (an
\* empty list or tuple included).
C7_Claim ==
    out.kind # "none" =>
        /\ out.kind = "return"
        /\ out.value =
              IF key \notin DOMAIN results THEN NoneValue
              ELSE IF is_list_or_tuple(results[key]) /\ Len(results[key].items) >= 1
                   THEN Datum(results[key].items[1])
                   ELSE results[key]

\* C8: reducing the result of a successful reduction succeeds and returns a
\* list equal to that result.
C8_Idempotent ==
    (Finished /\ round >= 2) => (status = "returned" /\ lists[result] = res0)

C8_Witness ==
    /\ status = "returned"
    /\ round = 2
    /\ Len(res0) >= 2
    /\ res0[1] # res0[2]
    /\ Len(lists[1]) > Len(res0)
    /\ lists[result] = res0

\* C9: no list that existed when the call was made is changed by it, and the
\* list a successful call returns is none of them.
C9_InputUnchanged ==
    /\ status # "idle" => \A id \in DOMAIN heap0 : lists[id] = heap0[id]
    /\ status = "returned" => (result \in DOMAIN lists /\ result \notin DOMAIN heap0)

C9_Witness ==
    /\ status = "returned"
    /\ round = 1
    /\ \E i \in 1..Len(Input) :
          /\ is_loading_function(Input[i]) = "None"
          /\ lists[result] = heap0[inner_pipeline_of(Input[i])]

\* the top frame has finished its loop with a non-empty loading_pipeline
AboutToReturn == LoopDone /\ Len(lists[Top.loading_pipeline]) > 0

Returned(lp, p) ==
    /\ Len(lp) > 0
    /\ \A i \in 1..Len(lp) :
          /\ is_loading_function(lp[i]) = "True"
          /\ Occurrences(lists, p, lp[i]) > 0
          /\ CountIn(lp, lp[i]) = Occurrences(lists, p, lp[i])

====
